---- MODULE Spec2Model ----
(***************************************************************************)
(* Gesture-driven desktop control: the Dispatcher (MasterGestureController)*)
(* and the Mode Runners it hands the camera to.                            *)
(*                                                                         *)
(* Time is counted in ticks of 0.05 s, so that every hold and cooldown of  *)
(* the sources is a whole number of ticks (2.0 s = 40, 0.8 s = 16, ...).   *)
(* A runner's clock starts at 0 when the runner is constructed: the code   *)
(* only ever compares differences of time.time() values.                   *)
(***************************************************************************)
EXTENDS Integers, Sequences, FiniteSets, TLC

VARIABLES
    pc,                    \* where the single thread of control is
    cap,                   \* MasterGestureController.cap: "open" / "released"
    confirmation_frames,   \* MasterGestureController.confirmation_frames
    gesture_mode,          \* run(): label of the Dispatcher's last frame
    mode_name,             \* enter_mode's argument while a hand-off is under way
    runner,                \* the runner enter_mode's branch called
    runner_cap,            \* the active runner's VideoCapture: "none"/"open"/"released"
    orphan_cap,            \* a runner ended without releasing its VideoCapture
    now,                   \* time.time() of the runner's latest frame
    exit_start,            \* run_scroll: exit_start
    master_exit_start,     \* HandFileOpener / VideoPlayer: master_exit_start
    last_action_time,      \* run_scroll / run_slide_travel / Zoom: last_action_time
    fist_start,            \* run_slide_travel: fist_start
    zoom_in_frames,        \* Zoom.py counters
    zoom_out_frames,
    fist_frames,
    current_gesture,       \* Zoom.py: current_gesture
    gesture_countdown_start, \* gesture_screenshot.main
    screenshot_taken_time,   \* gesture_screenshot.main
    palm_start,            \* VideoPlayer.palm_start
    last_palm_action,      \* VideoPlayer.last_palm_action
    frame,                 \* the latest frame read, and who read it
    emitted,               \* the action-sink call made while processing that frame
    ended_by,              \* why the last runner stopped
    held_since,            \* first frame time of the current unbroken run of exit-gesture frames
    same_run,              \* Dispatcher frames in a row carrying the label gesture_mode
    gest_run,              \* Dispatcher frames in a row carrying some mode-entry label
    prev_cf,               \* confirmation_frames before the Dispatcher's last frame
    prev_label,            \* label of the Dispatcher frame before the last one
    disp_frames,           \* Dispatcher frames read since construction / the last hand-off
    hold_frames,           \* run_scroll / Zoom: runner frames in a row showing the latest frame's gesture
    hold_fires,            \* actions fired by the gesture shown in every frame of the current hold
    run_ended_by,          \* why MasterGestureController.run left its loop
    reopen_failed,         \* the VideoCapture(0) of enter_mode line 320 did not open the camera
    settled,               \* a time.sleep of enter_mode has run since the camera was last released
    runner_hands,          \* the active runner's mp_hands.Hands detector: "none"/"open"/"closed"
    trigger_since,         \* gesture_screenshot: first frame time of the current unbroken run of trigger frames
    opener,                \* the attributes of the HandFileOpener object
    back_g,                \* HandFileOpener.run: the local back_g
    file_event,            \* what the file browser did while processing the latest frame
    lm,                    \* the landmark list given to the detectors on their own
    seen,                  \* what the detectors returned for lm
    seen_before,           \* what they returned for the pose before it was transformed
    xform,                 \* the transformation applied to the pose
    fist_since,            \* first frame time of the current unbroken run of fist frames
    key_seen,              \* what cv2.waitKey returned at the poll of the latest frame
    pinch_selects,         \* file browser: confirmed selections during the current unbroken pinch
    closed_now,            \* file browser: the close action was issued in the latest frame
    closes_since_open,     \* file browser: close actions issued since the last file was opened
    player,                \* the attributes of the VideoPlayer object
    mouse                  \* gesture_mouse_control.main: its locals

dispVars == <<cap, confirmation_frames, gesture_mode>>
handVars == <<mode_name, runner, runner_cap, orphan_cap>>
runVars  == <<now, exit_start, master_exit_start, last_action_time, fist_start,
              zoom_in_frames, zoom_out_frames, fist_frames, current_gesture,
              gesture_countdown_start, screenshot_taken_time>>
histVars == <<frame, emitted, ended_by, held_since, same_run, gest_run,
              prev_cf, prev_label, disp_frames>>
palmVars == <<palm_start, last_palm_action>>
holdVars == <<hold_frames, hold_fires>>
endVars  == <<run_ended_by, reopen_failed>>
resVars  == <<settled, runner_hands>>
fileVars == <<opener, back_g, file_event>>
geomVars == <<lm, seen, seen_before, xform>>
browseVars == <<pinch_selects, closed_now, closes_since_open>>
lateVars == <<fist_since, key_seen, browseVars, player, mouse>>
vars == <<pc, dispVars, handVars, runVars, histVars, palmVars, holdVars, endVars,
          resVars, trigger_since, fileVars, geomVars, lateVars>>

(***************************************************************************)
(* Bounds and program constants                                            *)
(***************************************************************************)
\* Longest runner session explored, in ticks; the zoom loop and the video
\* browser, whose frames can follow each other quickly, have their own.
MaxTime == 80
ZoomMaxTime == 24
VideoMaxTime == 56
FileMaxTime == 60

\* Longest run of frames with one gesture that is counted.
MaxHold == 9

\* time.time() advances by one of these between two frames of a runner.
FrameDts == {10, 20}
\* The zoom loop also sees frames in quick succession.
ZoomDts == {1, 10}
\* The video browser's frames: 0.25 s or 0.5 s apart.
VideoDts == {5, 10}
\* The file browser's frames: 0.25 s or 0.5 s apart.
FileDts == {5, 10}

\* How many videos find_videos returns: fewer than a page, more than a page.
VideoCounts == {3, 9}

CONFIRMATION_FRAMES == 10
EXIT_HOLD == 40
MASTER_EXIT_HOLD == 40
SCROLL_COOLDOWN == 16
SLIDE_COOLDOWN == 20
SLIDE_FIST_HOLD == 12
\* One frame fewer than Zoom.py requires.
GestureFramesSeven == 8 - 1
GESTURE_FRAMES_REQUIRED == 8
ZOOM_COOLDOWN == 10
countdown_duration == 60
gesture_cooldown == 40
PALM_HOLD == 20
PALM_COOLDOWN == 30
FILE_PINCH_HOLD == 7
FILE_BACK_HOLD == 6
FILE_FIST_HOLD == 7
VIDEO_PINCH_HOLD == 8
VIDEO_BACK_HOLD == 7
VIDEO_FIST_HOLD == 10
PER_PAGE == 8

\* Python's None, for labels; an unset timestamp is the empty tuple.
None == "None"
NoTime == <<>>
At(t) == <<t>>
TimeOf(x) == x[1]

\* Zoom.py sets last_action_time = 0, the epoch: further back than any cooldown.
Epoch == 0 - MaxTime

(***************************************************************************)
(* Finger states and frames                                                *)
(***************************************************************************)
\* [thumb, index, middle, ring, pinky]
FingerState == [1..5 -> BOOLEAN]
NoFingers == <<FALSE, FALSE, FALSE, FALSE, FALSE>>

\* What one loop iteration gets from cap.read() and the landmark detector:
\* ok = the read succeeded, hand = a hand was detected, fingers = the finger
\* state the reading component's extractor computes, fist = the compactness
\* test of slidetravel._is_fist and HandFileOpener.detect_fist, pinch = the
\* result of HandFileOpener.detect_pinch, bad = the detector's landmark list
\* is too short or malformed, so that indexing it in fingers_up raises.
ReadFail == [ok |-> FALSE, hand |-> FALSE, fingers |-> NoFingers, fist |-> FALSE,
             pinch |-> FALSE, bad |-> FALSE]
NoHand   == [ok |-> TRUE,  hand |-> FALSE, fingers |-> NoFingers, fist |-> FALSE,
             pinch |-> FALSE, bad |-> FALSE]
Hand(f, fi) == [ok |-> TRUE, hand |-> TRUE, fingers |-> f, fist |-> fi,
                pinch |-> FALSE, bad |-> FALSE]
BadHand  == [ok |-> TRUE,  hand |-> TRUE,  fingers |-> NoFingers, fist |-> FALSE,
             pinch |-> FALSE, bad |-> TRUE]
\* Thumb and index up with their tips together.
PinchHand == [ok |-> TRUE, hand |-> TRUE, fingers |-> <<TRUE, TRUE, FALSE, FALSE, FALSE>>,
              fist |-> FALSE, pinch |-> TRUE, bad |-> FALSE]
\* Index and middle up (the back gesture) with the thumb tip at the index tip.
PinchBackHand == [ok |-> TRUE, hand |-> TRUE, fingers |-> <<FALSE, TRUE, TRUE, FALSE, FALSE>>,
                  fist |-> FALSE, pinch |-> TRUE, bad |-> FALSE]
\* A closed hand whose thumb tip lies at the index tip: the distance test
\* of detect_pinch and the compactness test of detect_fist both succeed.
PinchFistHand == [ok |-> TRUE, hand |-> TRUE, fingers |-> NoFingers,
                  fist |-> TRUE, pinch |-> TRUE, bad |-> FALSE]

\* The Dispatcher's frames: every finger state, and a malformed hand.
Frames == {ReadFail, NoHand, BadHand} \cup {Hand(f, FALSE) : f \in FingerState}

\* The finger states shown to a runner: at least one of every class that
\* some runner tells apart (fist, index, index+middle, thumb, open palm, the
\* exit gesture, thumb+index, thumb+index+middle, thumb+index+middle+pinky).
RunnerFingers ==
    { <<FALSE, FALSE, FALSE, FALSE, FALSE>>,
      <<FALSE, TRUE,  FALSE, FALSE, FALSE>>,
      <<FALSE, TRUE,  TRUE,  FALSE, FALSE>>,
      <<TRUE,  FALSE, FALSE, FALSE, FALSE>>,
      <<TRUE,  TRUE,  TRUE,  TRUE,  TRUE>>,
      <<TRUE,  TRUE,  FALSE, FALSE, TRUE>>,
      <<TRUE,  TRUE,  FALSE, FALSE, FALSE>>,
      <<TRUE,  TRUE,  TRUE,  FALSE, FALSE>>,
      <<TRUE,  TRUE,  TRUE,  FALSE, TRUE>> }

RunnerFrames == {ReadFail, NoHand} \cup {Hand(f, FALSE) : f \in RunnerFingers}

\* For the zoom loop: its three gestures, the exit gesture and an open palm.
ZoomFingers ==
    { <<FALSE, FALSE, FALSE, FALSE, FALSE>>,
      <<FALSE, TRUE,  FALSE, FALSE, FALSE>>,
      <<FALSE, TRUE,  TRUE,  FALSE, FALSE>>,
      <<TRUE,  TRUE,  FALSE, FALSE, TRUE>>,
      <<TRUE,  TRUE,  TRUE,  TRUE,  TRUE>> }
ZoomFrames == {ReadFail, NoHand} \cup {Hand(f, FALSE) : f \in ZoomFingers}

\* For the video browser: open palm, the exit gesture, index only and the
\* back gesture; a pinch and a fist.
VideoFingers ==
    { <<FALSE, TRUE,  FALSE, FALSE, FALSE>>,
      <<FALSE, TRUE,  TRUE,  FALSE, FALSE>>,
      <<TRUE,  TRUE,  FALSE, FALSE, TRUE>>,
      <<TRUE,  TRUE,  TRUE,  TRUE,  TRUE>> }
VideoFrames == {ReadFail, NoHand, PinchHand, Hand(NoFingers, TRUE)}
                  \cup {Hand(f, FALSE) : f \in VideoFingers}
FistFrames == {ReadFail, NoHand}
                 \cup {Hand(f, fi) : f \in RunnerFingers, fi \in BOOLEAN}

\* For the file browser: the exit gesture, the back gesture (index +
\* middle), a pinch, a fist and an open palm.
FileFrames == {ReadFail, NoHand, PinchHand, PinchBackHand, PinchFistHand,
               Hand(<<TRUE, TRUE, FALSE, FALSE, TRUE>>, FALSE),
               Hand(<<FALSE, TRUE, TRUE, FALSE, FALSE>>, FALSE),
               Hand(<<FALSE, FALSE, FALSE, FALSE, FALSE>>, TRUE),
               Hand(<<TRUE, TRUE, TRUE, TRUE, TRUE>>, FALSE)}

ReadBy(who, fr) == [by |-> who, ok |-> fr.ok, hand |-> fr.hand,
                    fingers |-> fr.fingers, fist |-> fr.fist,
                    pinch |-> fr.pinch, bad |-> fr.bad]
NoFrame == ReadBy("none", ReadFail)

(***************************************************************************)
(* master_gesture_controller.detect_mode_gesture                           *)
(***************************************************************************)
ScrollModePattern(f) == f[1] /\ f[2] /\ f[3] /\ f[4] /\ f[5]

FileModePatternAnyPinky(f) == f[1] /\ f[2] /\ ~f[3] /\ ~f[4]
FileModePattern(f) == f[1] /\ f[2] /\ ~f[3] /\ ~f[4] /\ ~f[5]

SsModePattern(f) == ~f[1] /\ ~f[2] /\ f[3] /\ f[4] /\ f[5]

SlideModePattern(f) == ~f[1] /\ f[2] /\ f[3] /\ ~f[4] /\ ~f[5]

VideoModePattern(f) == ~f[1] /\ f[2] /\ f[3] /\ f[4] /\ ~f[5]

ZoomModePatternAnyThumb(f) == f[2] /\ ~f[3] /\ ~f[4] /\ ~f[5]
ZoomModePattern(f) == ~f[1] /\ f[2] /\ ~f[3] /\ ~f[4] /\ ~f[5]

detect_mode_gesture(f) ==
    IF ScrollModePattern(f) THEN "scroll_mode"
    ELSE IF FileModePattern(f) THEN "file_mode"
    ELSE IF SsModePattern(f) THEN "ss_mode"
    ELSE IF SlideModePattern(f) THEN "slide_mode"
    ELSE IF VideoModePattern(f) THEN "video_mode"
    ELSE IF ZoomModePattern(f) THEN "zoom_mode"
    ELSE None

ModeLabels == {"scroll_mode", "file_mode", "ss_mode", "slide_mode",
               "video_mode", "zoom_mode"}

(***************************************************************************)
(* Zoom.detect_gesture                                                     *)
(***************************************************************************)
ZoomInPattern(f) == f[2] /\ ~(f[3] \/ f[4] \/ f[5])

ZoomOutPatternAnyRing(f) == f[2] /\ f[3] /\ ~f[5]
ZoomOutPattern(f) == f[2] /\ f[3] /\ ~(f[4] \/ f[5])

ZoomFistPattern(f) == ~(f[1] \/ f[2] \/ f[3] \/ f[4] \/ f[5])

detect_gesture(f) ==
    IF ZoomInPattern(f) THEN "zoom_in"
    ELSE IF ZoomOutPattern(f) THEN "zoom_out"
    ELSE IF ZoomFistPattern(f) THEN "fist"
    ELSE None

(***************************************************************************)
(* The exit-to-master pattern: thumb + index + pinky up, middle + ring     *)
(* down (scroll.py 54, slidetravel.py 161, open_files.py 209,              *)
(* video_player.py 203).                                                   *)
(***************************************************************************)
MasterExitPattern(f) == f[1] /\ f[2] /\ ~f[3] /\ ~f[4] /\ f[5]

\* gesture_screenshot.are_fingers_up: thumb, index and pinky up; middle and
\* ring are not looked at.
are_fingers_up(f) == f[1] /\ f[2] /\ f[5]

(***************************************************************************)
(* enter_mode's branch for each label                                      *)
(***************************************************************************)
RunnerFor(m) ==
    IF m = "file_mode" THEN "HandFileOpener.run"
    ELSE IF m = "scroll_mode" THEN "run_scroll"
    ELSE IF m = "zoom_mode" THEN "run_zoom"
    ELSE IF m = "slide_mode" THEN "run_slide_travel"
    ELSE IF m = "ss_mode" THEN "run_screenshot"
    ELSE IF m = "video_mode" THEN "run_video_player"
    ELSE None

(***************************************************************************)
(* Initial state: MasterGestureController.__init__ has run                 *)
(***************************************************************************)
\* HandFileOpener.__init__, lines 29-47 (the timers master_exit_start and
\* fist_start are variables of their own).
NoChoice == <<>>
OpenerNew == [state |-> "menu", choice |-> NoChoice, files |-> <<>>, page |-> 0,
              last_opened |-> None, pinched |-> FALSE,
              pinch_start |-> NoTime, back_start |-> NoTime]

\* VideoPlayer.__init__, lines 121-149: videos is the number of paths
\* find_videos returned (the timers master_exit_start, fist_start and
\* palm_start are variables of their own).
PlayerNew == [videos |-> 0, page |-> 0, pinched |-> FALSE, pinch_start |-> NoTime,
              back_start |-> NoTime, last_opened |-> None]

\* gesture_mouse_control.main, lines 156-158, and what is recorded about its
\* pinches: pinch_before = is_pinching of the last frame with a hand before
\* the latest frame, pinch_clicks = clicks made during the current unbroken
\* pinch, began_cooling = that pinch began before the click cooldown had
\* passed.
MouseNew == [pinch_detected_last |-> FALSE, click_cooldown_time |-> NoTime,
             pinch_before |-> FALSE, pinch_clicks |-> 0, began_cooling |-> FALSE]

RunnerIdle ==
    /\ now = 0
    /\ exit_start = NoTime
    /\ master_exit_start = NoTime
    /\ last_action_time = 0
    /\ fist_start = NoTime
    /\ zoom_in_frames = 0
    /\ zoom_out_frames = 0
    /\ fist_frames = 0
    /\ current_gesture = None
    /\ gesture_countdown_start = NoTime
    /\ screenshot_taken_time = NoTime
    /\ palm_start = NoTime
    /\ last_palm_action = Epoch
    /\ hold_frames = 0
    /\ hold_fires = 0
    /\ trigger_since = NoTime
    /\ opener = OpenerNew
    /\ back_g = FALSE
    /\ file_event = None
    /\ fist_since = NoTime
    /\ key_seen = "none"
    /\ pinch_selects = 0
    /\ closed_now = FALSE
    /\ closes_since_open = 0
    /\ player = PlayerNew
    /\ mouse = MouseNew

\* A runner's locals and attributes before its set-up and after it is gone.
RunnerReset ==
    /\ now' = 0
    /\ exit_start' = NoTime
    /\ master_exit_start' = NoTime
    /\ fist_start' = NoTime
    /\ zoom_in_frames' = 0
    /\ zoom_out_frames' = 0
    /\ fist_frames' = 0
    /\ current_gesture' = None
    /\ gesture_countdown_start' = NoTime
    /\ screenshot_taken_time' = NoTime
    /\ palm_start' = NoTime
    /\ last_palm_action' = Epoch
    /\ hold_frames' = 0
    /\ hold_fires' = 0
    /\ trigger_since' = NoTime
    /\ opener' = OpenerNew
    /\ back_g' = FALSE
    /\ file_event' = None
    /\ fist_since' = NoTime
    /\ key_seen' = "none"
    /\ pinch_selects' = 0
    /\ closed_now' = FALSE
    /\ closes_since_open' = 0

\* No landmark list has been given to the detectors on their own.
GeomIdle ==
    /\ lm = <<>>
    /\ seen = <<>>
    /\ seen_before = <<>>
    /\ xform = <<>>

Init ==
    /\ pc = "detect"
    /\ cap = "open"
    /\ confirmation_frames = 0
    /\ gesture_mode = None
    /\ mode_name = None
    /\ runner = None
    /\ runner_cap = "none"
    /\ orphan_cap = FALSE
    /\ RunnerIdle
    /\ frame = NoFrame
    /\ emitted = None
    /\ ended_by = None
    /\ held_since = NoTime
    /\ same_run = 0
    /\ gest_run = 0
    /\ prev_cf = 0
    /\ prev_label = None
    /\ disp_frames = 0
    /\ run_ended_by = None
    /\ reopen_failed = FALSE
    /\ settled = TRUE
    /\ runner_hands = "none"
    /\ GeomIdle

(***************************************************************************)
(* MasterGestureController.run: one iteration of the detection loop        *)
(***************************************************************************)
Min(a, b) == IF a < b THEN a ELSE b

\* Lines 216-259 without the reset of line 259: a frame without a hand keeps the counter.
NextCountKeepsOnNoHand(cf, hand, label) ==
    IF hand THEN (IF label # None THEN cf + 1 ELSE 0) ELSE cf

\* Lines 216-259: the counter after a frame that was read successfully.
NextCount(cf, hand, label) ==
    IF hand /\ label # None THEN cf + 1 ELSE 0

\* The label run() computes for a frame (lines 216-223).
LabelOf(fr) == IF fr.hand THEN detect_mode_gesture(fr.fingers) ELSE None

\* Bookkeeping about the Dispatcher's frames (not program state).
DispatcherHistory(fr, label) ==
    /\ frame' = ReadBy("dispatcher", fr)
    /\ emitted' = None
    /\ prev_cf' = confirmation_frames
    /\ prev_label' = gesture_mode
    /\ same_run' = IF label = None THEN 0
                   ELSE IF label = gesture_mode
                        THEN Min(same_run + 1, CONFIRMATION_FRAMES)
                        ELSE 1
    /\ gest_run' = IF label = None THEN 0
                   ELSE Min(gest_run + 1, CONFIRMATION_FRAMES)
    /\ disp_frames' = Min(disp_frames + 1, CONFIRMATION_FRAMES)
    /\ UNCHANGED <<ended_by, held_since>>

\* run()'s loop takes a frame while a runner is in its own loop.
DispatcherTurnWhileRunner == pc \in {"detect", "running"}

\* run()'s loop is at the top of an iteration: enter_mode (line 249) is a
\* call that returns only when the runner has returned.
DispatcherTurn == pc = "detect"

\* Lines 198-272.  The iteration in which the counter reaches
\* CONFIRMATION_FRAMES calls enter_mode (line 249) and is continued by
\* EnterReturn and Resume; key is what cv2.waitKey returns at line 263.
\* read() of a capture that did not open returns no frame.  An exception
\* raised in the body (fingers_up on a malformed landmark list, line 220)
\* is caught at lines 268-270, which print it and break.
DispatcherFrame ==
    /\ DispatcherTurn
    /\ \E fr \in Frames, key \in {"none", "esc"} :
        LET label == LabelOf(fr)
            cf    == NextCount(confirmation_frames, fr.hand, label)
            enter == fr.ok /\ ~fr.bad /\ label # None /\ cf >= CONFIRMATION_FRAMES
        IN  /\ cap = "failed" => ~fr.ok
            /\ (~fr.ok \/ fr.bad \/ enter) => key = "none"
            /\ IF ~fr.ok \/ fr.bad
               THEN \* lines 202 / 270: break, then line 272
                    /\ pc' = "done"
                    /\ cap' = "released"
                    /\ frame' = ReadBy("dispatcher", fr)
                    /\ run_ended_by' = IF fr.ok THEN "exception" ELSE "read_fail"
                    /\ UNCHANGED <<confirmation_frames, gesture_mode, mode_name,
                                   emitted, ended_by, held_since, same_run,
                                   gest_run, prev_cf, prev_label, disp_frames>>
               ELSE /\ confirmation_frames' = cf
                    /\ gesture_mode' = label
                    /\ DispatcherHistory(fr, label)
                    /\ IF enter
                       THEN /\ pc' = "enter_mode"
                            /\ mode_name' = label
                            /\ UNCHANGED <<cap, run_ended_by>>
                       ELSE /\ pc' = IF key = "esc" THEN "done" ELSE "detect"
                            /\ cap' = IF key = "esc" THEN "released" ELSE cap
                            /\ run_ended_by' = IF key = "esc" THEN "esc" ELSE run_ended_by
                            /\ UNCHANGED mode_name
    /\ UNCHANGED <<runner, runner_cap, orphan_cap, runVars, palmVars, holdVars,
                   reopen_failed>>
    /\ UNCHANGED <<resVars, trigger_since, fileVars, geomVars, lateVars>>

(***************************************************************************)
(* MasterGestureController.enter_mode, step by step                        *)
(***************************************************************************)
\* Lines 277-278 without the release.
EnterReleaseKeepsCamera ==
    /\ pc = "enter_mode"
    /\ pc' = "settle_in"
    /\ UNCHANGED <<dispVars, handVars, runVars, histVars, palmVars, holdVars, endVars>>
    /\ UNCHANGED <<resVars, trigger_since, fileVars, geomVars, lateVars>>

\* Lines 277-278: self.cap.release(); cv2.destroyAllWindows().
EnterRelease ==
    /\ pc = "enter_mode"
    /\ cap' = "released"
    /\ pc' = "settle_in"
    /\ settled' = FALSE
    /\ UNCHANGED <<confirmation_frames, gesture_mode, handVars, runVars, histVars,
                   palmVars, holdVars, endVars>>
    /\ UNCHANGED <<runner_hands, trigger_since, fileVars, geomVars, lateVars>>

\* Line 279: time.sleep(0.5).
SettleIn ==
    /\ pc = "settle_in"
    /\ pc' = "dispatch"
    /\ settled' = TRUE
    /\ UNCHANGED <<dispVars, handVars, runVars, histVars, palmVars, holdVars, endVars>>
    /\ UNCHANGED <<runner_hands, trigger_since, fileVars, geomVars, lateVars>>

\* Lines 281-313 up to the runner's loop: the branch taken and the runner's
\* own set-up (its VideoCapture(0) and the initial values of its timers).
RunnerStart ==
    /\ pc = "dispatch"
    /\ runner' = RunnerFor(mode_name)
    /\ runner_cap' = "open"
    /\ pc' = "running"
    /\ RunnerReset
    /\ last_action_time' = IF mode_name = "zoom_mode" THEN Epoch ELSE 0
    /\ frame' = NoFrame
    /\ emitted' = None
    /\ ended_by' = None
    /\ held_since' = NoTime
    /\ same_run' = 0
    /\ gest_run' = 0
    /\ prev_cf' = 0
    /\ prev_label' = None
    /\ disp_frames' = 0
    /\ runner_hands' = "open"
    /\ \E n \in VideoCounts :
        player' = [PlayerNew EXCEPT !.videos = IF mode_name = "video_mode" THEN n ELSE 0]
    /\ UNCHANGED <<dispVars, mode_name, orphan_cap, endVars, settled, geomVars, mouse>>

\* Line 320: self.cap = cv2.VideoCapture(0).  The call returns a capture
\* object whether or not the device could be opened (it cannot while it is
\* busy); enter_mode does not look at isOpened().
Reacquire ==
    /\ pc = "reacquire"
    /\ \E opened \in BOOLEAN :
        /\ cap' = IF opened THEN "open" ELSE "failed"
        /\ reopen_failed' = ~opened
    /\ pc' = "settle_out"
    /\ UNCHANGED <<confirmation_frames, gesture_mode, handVars, runVars, histVars,
                   palmVars, holdVars, run_ended_by>>
    /\ UNCHANGED <<resVars, trigger_since, fileVars, geomVars, lateVars>>

\* Lines 321-323 and 250 with both resets of the counter left out.
EnterReturnKeepsCount ==
    /\ pc = "settle_out"
    /\ pc' = "resume"
    /\ gesture_mode' = None
    /\ mode_name' = None
    /\ runner' = None
    /\ runner_cap' = "none"
    /\ RunnerReset
    /\ last_action_time' = 0
    /\ frame' = NoFrame
    /\ emitted' = None
    /\ held_since' = NoTime
    /\ same_run' = 0
    /\ gest_run' = 0
    /\ prev_cf' = 0
    /\ prev_label' = None
    /\ disp_frames' = 0
    /\ settled' = TRUE
    /\ runner_hands' = "none"
    /\ player' = PlayerNew
    /\ UNCHANGED <<cap, confirmation_frames, orphan_cap, ended_by, endVars, geomVars, mouse>>

\* Lines 321-323, the return to run(), and line 250: time.sleep(1), then
\* confirmation_frames = 0 (twice).  The runner's locals are gone.
EnterReturn ==
    /\ pc = "settle_out"
    /\ pc' = "resume"
    /\ confirmation_frames' = 0
    /\ gesture_mode' = None
    /\ mode_name' = None
    /\ runner' = None
    /\ runner_cap' = "none"
    /\ RunnerReset
    /\ last_action_time' = 0
    /\ frame' = NoFrame
    /\ emitted' = None
    /\ held_since' = NoTime
    /\ same_run' = 0
    /\ gest_run' = 0
    /\ prev_cf' = 0
    /\ prev_label' = None
    /\ disp_frames' = 0
    /\ settled' = TRUE
    /\ runner_hands' = "none"
    /\ player' = PlayerNew
    /\ UNCHANGED <<cap, orphan_cap, ended_by, endVars, geomVars, mouse>>

\* Lines 261-266 of the iteration that called enter_mode.
Resume ==
    /\ pc = "resume"
    /\ \E key \in {"none", "esc"} :
        /\ pc' = IF key = "esc" THEN "done" ELSE "detect"
        /\ cap' = IF key = "esc" THEN "released" ELSE cap
        /\ run_ended_by' = IF key = "esc" THEN "esc" ELSE run_ended_by
    /\ ended_by' = None
    /\ UNCHANGED <<confirmation_frames, gesture_mode, handVars, runVars,
                   frame, emitted, held_since, same_run, gest_run, prev_cf,
                   prev_label, disp_frames, palmVars, holdVars, reopen_failed>>
    /\ UNCHANGED <<resVars, trigger_since, fileVars, geomVars, lateVars>>

\* A VideoCapture that its runner never released is released by the Python
\* runtime when the object is collected; when that happens is up to the
\* runtime.
Finalize ==
    /\ orphan_cap
    /\ orphan_cap' = FALSE
    /\ UNCHANGED <<pc, dispVars, mode_name, runner, runner_cap, runVars, histVars,
                   palmVars, holdVars, endVars>>
    /\ UNCHANGED <<resVars, trigger_since, fileVars, geomVars, lateVars>>

(***************************************************************************)
(* Mode Runners: one action per iteration of a runner's loop.  t is the    *)
(* value of time.time() in the iteration, key what cv2.waitKey returns.    *)
(***************************************************************************)
\* The exit gesture has been shown, with a detected hand, in every frame
\* since held_since.
HeldSince(fr, t) ==
    IF fr.ok /\ fr.hand /\ MasterExitPattern(fr.fingers)
    THEN (IF held_since = NoTime THEN At(t) ELSE held_since)
    ELSE NoTime

\* A fist: every finger down for the finger-state extractors (scroll.py 69,
\* Zoom.detect_gesture), the compactness test for slidetravel._is_fist,
\* HandFileOpener.detect_fist and VideoPlayer._detect_fist.
FistShown(fr) == fr.ok /\ fr.hand /\ (fr.fist \/ fr.fingers = NoFingers)

\* A fist has been shown, with a detected hand, in every frame since fist_since.
FistSince(fr, t) ==
    IF FistShown(fr)
    THEN (IF fist_since = NoTime THEN At(t) ELSE fist_since)
    ELSE NoTime

\* The runners that close their detector: Zoom.py creates it in a with
\* statement (line 82), gesture_screenshot.main calls hands.close() (line
\* 250).  scroll.py, slidetravel.py, open_files.py and video_player.py
\* contain no call that closes theirs.
ClosesDetector(r) == r \in {"run_zoom", "run_screenshot"}

\* The loop is left and the runner returns without releasing its camera.
RunnerReturnsKeepsCamera(why) ==
    /\ pc' = "reacquire"
    /\ ended_by' = why
    /\ runner_hands' = IF ClosesDetector(runner) THEN "closed" ELSE runner_hands
    /\ UNCHANGED <<runner_cap, orphan_cap, settled>>

\* The loop is left and the runner releases its camera before it returns.
RunnerReturns(why) ==
    /\ pc' = "reacquire"
    /\ runner_cap' = "released"
    /\ ended_by' = why
    /\ settled' = FALSE
    /\ runner_hands' = IF ClosesDetector(runner) THEN "closed" ELSE runner_hands
    /\ UNCHANGED orphan_cap

\* An exception leaves the runner: no release is executed on that path, and
\* enter_mode's except clause (lines 315-316) catches it.
RunnerRaises ==
    /\ pc' = "reacquire"
    /\ runner_cap' = "none"
    /\ orphan_cap' = TRUE
    /\ ended_by' = "exception"
    /\ UNCHANGED <<settled, runner_hands>>

RunnerStays ==
    /\ pc' = "running"
    /\ UNCHANGED <<runner_cap, orphan_cap, ended_by, settled, runner_hands>>

\* Bookkeeping about holds (not program state): g is the gesture the frame
\* being processed shows, prev the gesture of the frame before it (None
\* without a hand or a gesture), fired whether g's action fired in this frame.
HoldFrames(prev, g) ==
    IF g = None THEN 0
    ELSE IF g = prev THEN Min(hold_frames + 1, MaxHold) ELSE 1

HoldFires(prev, g, fired) ==
    IF g = None THEN 0
    ELSE Min((IF g = prev THEN hold_fires ELSE 0) + (IF fired THEN 1 ELSE 0), 2)

\* A hold timer: armed on the first frame of the condition, kept while it
\* lasts, cleared on a frame of the hand without it.
Armed(start, cond, t) ==
    IF cond THEN (IF start = NoTime THEN At(t) ELSE start) ELSE NoTime

(***************************************************************************)
(* scroll.run_scroll, lines 34-98                                          *)
(***************************************************************************)
\* Lines 68-90: the branch taken once the cooldown has passed.
ScrollAction(f) ==
    IF f = <<FALSE, FALSE, FALSE, FALSE, FALSE>> THEN "fist"
    ELSE IF f = <<FALSE, TRUE, FALSE, FALSE, FALSE>> THEN "scroll_up"
    ELSE IF f = <<FALSE, TRUE, TRUE, FALSE, FALSE>> THEN "scroll_down"
    ELSE IF f = <<TRUE, FALSE, FALSE, FALSE, FALSE>> THEN "scroll_up_fast"
    ELSE IF f = <<TRUE, TRUE, TRUE, TRUE, TRUE>> THEN "scroll_down_fast"
    ELSE None

ScrollCalls == {"scroll_up", "scroll_down", "scroll_up_fast", "scroll_down_fast"}

\* The gesture of lines 68-90 a frame shows to run_scroll.
ScrollPose(fr) == IF fr.ok /\ fr.hand THEN ScrollAction(fr.fingers) ELSE None

\* fails: the pyautogui.scroll call of this iteration raises.
ScrollFrame ==
    /\ pc = "running"
    /\ runner = "run_scroll"
    /\ \E fr \in RunnerFrames, key \in {"none", "esc"}, dt \in FrameDts, fails \in BOOLEAN :
        LET t == now + dt
            shown == fr.hand /\ MasterExitPattern(fr.fingers)
            exitNow == /\ shown
                       /\ exit_start # NoTime
                       /\ t - TimeOf(exit_start) >= EXIT_HOLD
            es == IF fr.hand THEN Armed(exit_start, shown, t) ELSE exit_start
            act == IF fr.hand /\ ~exitNow /\ t - last_action_time > SCROLL_COOLDOWN
                   THEN ScrollAction(fr.fingers)
                   ELSE None
        IN  /\ t <= MaxTime
            /\ (~fr.ok \/ exitNow \/ fails) => key = "none"
            /\ fails => act \in ScrollCalls
            /\ now' = t
            /\ frame' = ReadBy("runner", fr)
            /\ held_since' = HeldSince(fr, t)
            /\ fist_since' = FistSince(fr, t)
            /\ key_seen' = key
            /\ IF ~fr.ok
               THEN /\ RunnerReturns("read_fail")
                    /\ emitted' = None
                    /\ UNCHANGED <<exit_start, last_action_time>>
               ELSE IF exitNow
               THEN /\ RunnerReturns("exit_gesture")
                    /\ emitted' = None
                    /\ UNCHANGED <<exit_start, last_action_time>>
               ELSE IF fails
               THEN /\ RunnerRaises
                    /\ emitted' = act
                    /\ exit_start' = es
                    /\ UNCHANGED last_action_time
               ELSE /\ exit_start' = es
                    /\ last_action_time' = IF act # None THEN t ELSE last_action_time
                    /\ emitted' = IF act \in ScrollCalls THEN act ELSE None
                    /\ IF key = "esc" THEN RunnerReturns("esc") ELSE RunnerStays
            /\ hold_frames' = HoldFrames(ScrollPose(frame), ScrollPose(fr))
            /\ hold_fires' = HoldFires(ScrollPose(frame), ScrollPose(fr),
                                       emitted' \in ScrollCalls)
    /\ UNCHANGED <<dispVars, mode_name, runner, master_exit_start, fist_start,
                   zoom_in_frames, zoom_out_frames, fist_frames, current_gesture,
                   gesture_countdown_start, screenshot_taken_time,
                   same_run, gest_run, prev_cf, prev_label, disp_frames,
                   palmVars, endVars>>
    /\ UNCHANGED <<trigger_since, fileVars, geomVars, browseVars, player, mouse>>

(***************************************************************************)
(* Zoom.py, the loop of lines 94-203 and the release of line 205           *)
(***************************************************************************)
\* The gesture detect_gesture sees in a frame.
ZoomPose(fr) == IF fr.ok /\ fr.hand THEN detect_gesture(fr.fingers) ELSE None

ZoomCalls == {"zoom_in", "zoom_out"}

\* Line 142, with the cooldown test left out.
ZoomCooledAlways(t) == TRUE

\* Line 142.
ZoomCooled(t) == t - last_action_time >= ZOOM_COOLDOWN

ZoomFrame ==
    /\ pc = "running"
    /\ runner = "run_zoom"
    /\ \E fr \in ZoomFrames, key \in {"none", "esc"}, dt \in ZoomDts :
        LET t == now + dt
            g == detect_gesture(fr.fingers)
            \* lines 115-119
            same == g = current_gesture
            zi0 == IF same THEN zoom_in_frames ELSE 0
            zo0 == IF same THEN zoom_out_frames ELSE 0
            ff0 == IF same THEN fist_frames ELSE 0
            \* lines 122-139
            zi1 == IF g = "zoom_in" THEN zi0 + 1 ELSE 0
            zo1 == IF g = "zoom_out" THEN zo0 + 1 ELSE 0
            ff1 == IF g = "fist" THEN ff0 + 1 ELSE 0
            \* lines 142-157
            cool == ZoomCooled(t)
            fireIn == cool /\ zi1 >= GESTURE_FRAMES_REQUIRED
            fireOut == cool /\ ~fireIn /\ zo1 >= GESTURE_FRAMES_REQUIRED
        IN  /\ t <= ZoomMaxTime
            /\ (~fr.ok \/ (fr.hand /\ ff1 >= GESTURE_FRAMES_REQUIRED)) => key = "none"
            /\ now' = t
            /\ frame' = ReadBy("runner", fr)
            /\ held_since' = HeldSince(fr, t)
            /\ fist_since' = FistSince(fr, t)
            /\ key_seen' = key
            /\ IF ~fr.ok
               THEN /\ RunnerReturns("read_fail")
                    /\ emitted' = None
                    /\ UNCHANGED <<zoom_in_frames, zoom_out_frames, fist_frames,
                                   current_gesture, last_action_time>>
               ELSE IF ~fr.hand
               THEN \* lines 174-179
                    /\ zoom_in_frames' = 0
                    /\ zoom_out_frames' = 0
                    /\ fist_frames' = 0
                    /\ current_gesture' = None
                    /\ emitted' = None
                    /\ UNCHANGED last_action_time
                    /\ IF key = "esc" THEN RunnerReturns("esc") ELSE RunnerStays
               ELSE /\ zoom_in_frames' = IF fireIn THEN 0 ELSE zi1
                    /\ zoom_out_frames' = IF fireOut THEN 0 ELSE zo1
                    /\ fist_frames' = ff1
                    /\ current_gesture' = IF fireIn \/ fireOut THEN None ELSE g
                    /\ last_action_time' = IF fireIn \/ fireOut THEN t ELSE last_action_time
                    /\ emitted' = IF fireIn THEN "zoom_in"
                                  ELSE IF fireOut THEN "zoom_out" ELSE None
                    /\ IF ff1 >= GESTURE_FRAMES_REQUIRED
                       THEN RunnerReturns("fist")
                       ELSE IF key = "esc" THEN RunnerReturns("esc") ELSE RunnerStays
            /\ hold_frames' = HoldFrames(ZoomPose(frame), ZoomPose(fr))
            /\ hold_fires' = HoldFires(ZoomPose(frame), ZoomPose(fr),
                                       emitted' \in ZoomCalls)
    /\ UNCHANGED <<dispVars, mode_name, runner, exit_start, master_exit_start,
                   fist_start, gesture_countdown_start, screenshot_taken_time,
                   same_run, gest_run, prev_cf, prev_label, disp_frames,
                   palmVars, endVars>>
    /\ UNCHANGED <<trigger_since, fileVars, geomVars, browseVars, player, mouse>>

(***************************************************************************)
(* slidetravel.run_slide_travel, lines 119-196                             *)
(***************************************************************************)
\* Lines 170-180.
SlideAction(f) ==
    IF f = <<FALSE, TRUE, FALSE, FALSE, FALSE>> THEN "next_slide"
    ELSE IF f = <<FALSE, TRUE, TRUE, FALSE, FALSE>> THEN "previous_slide"
    ELSE None

\* Line 168, with the cooldown test left out.
SlideCooledAlways(t, last) == TRUE

\* Line 168: current_time - last_action_time > 1.
SlideCooled(t, last) == t - last > SLIDE_COOLDOWN

SlideKeys == {"next_slide", "previous_slide"}

\* The hold of lines 142-158 a frame shows to run_slide_travel.
SlidePose(fr) == IF fr.ok /\ fr.hand /\ fr.fist THEN "fist" ELSE None

\* fails: the pyautogui.press call of this iteration raises.  _close_ppt
\* swallows every exception of its own calls.
SlideFrame ==
    /\ pc = "running"
    /\ runner = "run_slide_travel"
    /\ \E fr \in FistFrames, key \in {"none", "esc"}, dt \in FrameDts, fails \in BOOLEAN :
        LET t == now + dt
            \* lines 142-158
            fs0 == Armed(fist_start, fr.fist, t)
            closeNow == fr.hand /\ fr.fist /\ t - TimeOf(fs0) >= SLIDE_FIST_HOLD
            fs1 == IF closeNow THEN NoTime ELSE fs0
            lat1 == IF closeNow THEN t ELSE last_action_time
            \* lines 161-165
            exitNow == fr.hand /\ MasterExitPattern(fr.fingers)
            \* lines 168-180
            act == IF fr.hand /\ ~exitNow /\ SlideCooled(t, lat1) /\ ~fr.fist
                   THEN SlideAction(fr.fingers)
                   ELSE None
        IN  /\ t <= MaxTime
            /\ (~fr.ok \/ exitNow \/ fails) => key = "none"
            /\ fails => act # None
            /\ now' = t
            /\ frame' = ReadBy("runner", fr)
            /\ held_since' = HeldSince(fr, t)
            /\ fist_since' = FistSince(fr, t)
            /\ key_seen' = key
            /\ IF ~fr.ok
               THEN /\ RunnerReturns("read_fail")
                    /\ emitted' = None
                    /\ UNCHANGED <<fist_start, last_action_time>>
               ELSE IF ~fr.hand
               THEN \* line 183
                    /\ fist_start' = NoTime
                    /\ emitted' = None
                    /\ UNCHANGED last_action_time
                    /\ IF key = "esc" THEN RunnerReturns("esc") ELSE RunnerStays
               ELSE IF exitNow
               THEN /\ RunnerReturns("exit_gesture")
                    /\ fist_start' = fs1
                    /\ last_action_time' = lat1
                    /\ emitted' = IF closeNow THEN "close_ppt" ELSE None
               ELSE IF fails
               THEN /\ RunnerRaises
                    /\ fist_start' = fs1
                    /\ last_action_time' = lat1
                    /\ emitted' = act
               ELSE /\ fist_start' = fs1
                    /\ last_action_time' = IF act # None THEN t ELSE lat1
                    /\ emitted' = IF closeNow THEN "close_ppt" ELSE act
                    /\ IF key = "esc" THEN RunnerReturns("esc") ELSE RunnerStays
            /\ hold_fires' = HoldFires(SlidePose(frame), SlidePose(fr),
                                       fr.ok /\ closeNow)
    /\ UNCHANGED <<dispVars, mode_name, runner, exit_start, master_exit_start,
                   zoom_in_frames, zoom_out_frames, fist_frames, current_gesture,
                   gesture_countdown_start, screenshot_taken_time,
                   same_run, gest_run, prev_cf, prev_label, disp_frames,
                   palmVars, hold_frames, endVars>>
    /\ UNCHANGED <<trigger_since, fileVars, geomVars, browseVars, player, mouse>>

(***************************************************************************)
(* gesture_screenshot.main, lines 152-250 (the runner of "ss_mode")        *)
(***************************************************************************)
ScreenshotFrame ==
    /\ pc = "running"
    /\ runner = "run_screenshot"
    /\ \E fr \in RunnerFrames, key \in {"none", "esc", "q"}, dt \in FrameDts :
        LET t == now + dt
            shown == fr.hand /\ are_fingers_up(fr.fingers)
            \* lines 184-190
            cs0 == IF gesture_countdown_start = NoTime THEN At(t)
                   ELSE gesture_countdown_start
            \* lines 218-232
            take == /\ shown
                    /\ t - TimeOf(cs0) >= countdown_duration
                    /\ \/ screenshot_taken_time = NoTime
                       \/ t - TimeOf(screenshot_taken_time) > gesture_cooldown
        IN  /\ t <= MaxTime
            /\ ~fr.ok => key = "none"
            /\ now' = t
            /\ frame' = ReadBy("runner", fr)
            /\ held_since' = HeldSince(fr, t)
            /\ fist_since' = FistSince(fr, t)
            /\ key_seen' = key
            /\ trigger_since' = IF fr.ok /\ shown
                                THEN (IF trigger_since = NoTime THEN At(t)
                                      ELSE trigger_since)
                                ELSE NoTime
            /\ IF ~fr.ok
               THEN /\ RunnerReturns("read_fail")
                    /\ emitted' = None
                    /\ UNCHANGED <<gesture_countdown_start, screenshot_taken_time>>
               ELSE /\ gesture_countdown_start' =
                          IF ~fr.hand THEN NoTime            \* line 235
                          ELSE IF ~shown THEN gesture_countdown_start
                          ELSE IF take THEN NoTime           \* line 232
                          ELSE cs0
                    /\ screenshot_taken_time' =
                          IF take THEN At(t) ELSE screenshot_taken_time
                    /\ emitted' = IF take THEN "capture_screenshot" ELSE None
                    /\ IF key = "q" THEN RunnerReturns("quit_key") ELSE RunnerStays
    /\ UNCHANGED <<dispVars, mode_name, runner, exit_start, master_exit_start,
                   last_action_time, fist_start, zoom_in_frames, zoom_out_frames,
                   fist_frames, current_gesture,
                   same_run, gest_run, prev_cf, prev_label, disp_frames,
                   palmVars, holdVars, endVars>>
    /\ UNCHANGED <<fileVars, geomVars, browseVars, player, mouse>>

(***************************************************************************)
(* open_files.HandFileOpener.run, lines 167-342                            *)
(***************************************************************************)
\* detect_back_gesture: index and middle up, ring and pinky down.
detect_back_gesture(f) == f[2] /\ f[3] /\ ~f[4] /\ ~f[5]

\* What find_files returns for the chosen type: a snapshot of the directory.
FoundFiles == {<<>>, <<"a.pdf">>}

\* self.types has four entries (lines 49-54); per_page is 8 (line 32).
TYPES_COUNT == 4
per_page == 8

\* What menu_hit_test / file_hit_test return: None, the first entry or row,
\* the fourth one.
NoHit == <<>>
Hits == {NoHit, <<0>>, <<3>>}

\* Lines 316-323 without the assignments to choice and files.
BackToMenuKeepsFiles(o) == [o EXCEPT !.state = "menu", !.page = 0,
                                     !.back_start = NoTime, !.pinched = FALSE]

\* Lines 242-244 without the assignment to last_opened.
AfterCloseKeepsRecord(o) == [o EXCEPT !.pinched = FALSE]

\* Lines 242-244: the close action has been issued (fist_start is a
\* variable of its own).
AfterClose(o) == [o EXCEPT !.last_opened = None, !.pinched = FALSE]

\* Lines 316-323: the back gesture, held for BACK_HOLD, returns to the menu.
BackToMenu(o) == [o EXCEPT !.state = "menu", !.choice = NoChoice, !.files = <<>>,
                           !.page = 0, !.back_start = NoTime, !.pinched = FALSE]

\* Lines 294-301 followed by line 304: os.startfile(path) succeeded.
AfterOpen(o, path) == [o EXCEPT !.last_opened = path, !.state = "menu",
                                !.choice = NoChoice, !.files = <<>>, !.page = 0,
                                !.pinch_start = NoTime, !.pinched = TRUE]

\* hit: what menu_hit_test / file_hit_test return for the cursor; found:
\* what find_files returns; starts: os.startfile does not raise; key: what
\* cv2.waitKey returns.
FileFrame ==
    /\ pc = "running"
    /\ runner = "HandFileOpener.run"
    /\ \E fr \in FileFrames, key \in {"none", "esc"}, dt \in FileDts,
          hit \in Hits, found \in FoundFiles, starts \in BOOLEAN :
        LET t == now + dt
            \* lines 177-190: back_g is assigned only when a hand is detected
            pinch == fr.hand /\ fr.pinch
            fist == fr.hand /\ fr.fist
            bg == IF fr.hand THEN detect_back_gesture(fr.fingers) ELSE back_g
            \* lines 203-209
            shown == fr.hand /\ MasterExitPattern(fr.fingers)
            \* lines 210-217
            exitNow == /\ shown
                       /\ master_exit_start # NoTime
                       /\ t - TimeOf(master_exit_start) >= MASTER_EXIT_HOLD
            \* lines 225-246
            closing == opener.last_opened # None /\ fist
            fs0 == Armed(fist_start, closing, t)
            closeNow == closing /\ t - TimeOf(fs0) >= FILE_FIST_HOLD
            o1 == IF closeNow THEN AfterClose(opener) ELSE opener
            \* lines 252-272 and 277-307
            ps0 == Armed(o1.pinch_start, pinch, t)
            confirm == pinch /\ t - TimeOf(ps0) >= FILE_PINCH_HOLD /\ ~o1.pinched
            select == confirm /\ o1.state = "menu" /\ hit # NoHit
            file_idx == o1.page * per_page + hit[1]
            open == /\ confirm /\ o1.state = "browse" /\ hit # NoHit
                    /\ file_idx < Len(o1.files)
            o2 == IF select
                  THEN [o1 EXCEPT !.choice = hit, !.files = found, !.page = 0,
                                  !.state = "browse", !.pinched = TRUE,
                                  !.pinch_start = ps0]
                  ELSE IF open /\ starts
                  THEN AfterOpen(o1, o1.files[file_idx + 1])
                  ELSE IF confirm
                  THEN [o1 EXCEPT !.pinched = TRUE, !.pinch_start = ps0]
                  ELSE [o1 EXCEPT !.pinch_start = ps0]
            \* lines 310-325, run when the iteration began in state 'browse'
            inBrowse == o1.state = "browse"
            bs0 == Armed(o2.back_start, bg, t)
            backNow == inBrowse /\ bg /\ t - TimeOf(bs0) >= FILE_BACK_HOLD
            o3 == IF backNow THEN BackToMenu(o2)
                  ELSE IF inBrowse THEN [o2 EXCEPT !.back_start = bs0]
                  ELSE o2
            \* lines 332-334
            o4 == IF pinch THEN o3
                  ELSE [o3 EXCEPT !.pinched = FALSE, !.pinch_start = NoTime]
        IN  /\ t <= FileMaxTime
            /\ (~fr.ok \/ exitNow) => key = "none"
            /\ ~select => found = <<>>
            /\ ~open => starts
            /\ ~confirm => hit = NoHit
            /\ now' = t
            /\ frame' = ReadBy("runner", fr)
            /\ held_since' = HeldSince(fr, t)
            /\ fist_since' = FistSince(fr, t)
            /\ key_seen' = key
            /\ IF ~fr.ok
               THEN /\ RunnerReturns("read_fail")
                    /\ emitted' = None
                    /\ file_event' = None
                    /\ closed_now' = FALSE
                    /\ UNCHANGED <<master_exit_start, fist_start, opener, back_g,
                                   pinch_selects, closes_since_open>>
               ELSE IF exitNow
               THEN /\ RunnerReturns("exit_gesture")
                    /\ emitted' = None
                    /\ back_g' = bg
                    /\ file_event' = None
                    /\ closed_now' = FALSE
                    /\ UNCHANGED <<master_exit_start, fist_start, opener,
                                   pinch_selects, closes_since_open>>
               ELSE /\ master_exit_start' =
                          IF fr.hand THEN Armed(master_exit_start, shown, t)
                          ELSE master_exit_start
                    /\ fist_start' = IF closeNow THEN NoTime ELSE fs0
                    /\ opener' = o4
                    /\ back_g' = bg
                    /\ file_event' = IF backNow THEN "back"
                                     ELSE IF open /\ starts THEN "opened"
                                     ELSE IF open THEN "open_failed"
                                     ELSE IF select THEN "selected"
                                     ELSE IF closeNow THEN "closed"
                                     ELSE None
                    /\ emitted' = IF open THEN "open_path"
                                  ELSE IF closeNow THEN "close_window"
                                  ELSE None
                    /\ pinch_selects' =
                          IF ~pinch THEN 0
                          ELSE Min(pinch_selects
                                     + (IF select \/ (open /\ starts) THEN 1 ELSE 0), 2)
                    /\ closed_now' = closeNow
                    /\ closes_since_open' =
                          IF open /\ starts THEN 0
                          ELSE IF closeNow THEN Min(closes_since_open + 1, 2)
                          ELSE closes_since_open
                    /\ IF key = "esc" THEN RunnerReturns("esc") ELSE RunnerStays
    /\ UNCHANGED <<dispVars, mode_name, runner, exit_start, last_action_time,
                   zoom_in_frames, zoom_out_frames, fist_frames,
                   current_gesture, gesture_countdown_start, screenshot_taken_time,
                   same_run, gest_run, prev_cf, prev_label, disp_frames,
                   palmVars, holdVars, endVars>>
    /\ UNCHANGED <<trigger_since, geomVars, player, mouse>>

(***************************************************************************)
(* video_player.VideoPlayer.run, lines 372-514                             *)
(***************************************************************************)
\* _detect_open_palm: the thumb and all four fingers extended.
OpenPalm(f) == f[1] /\ f[2] /\ f[3] /\ f[4] /\ f[5]

\* The hold of lines 432-447 a frame shows to the video browser.
VideoPose(fr) == IF fr.ok /\ fr.hand /\ OpenPalm(fr.fingers) THEN "open_palm" ELSE None

\* Line 439, with the cooldown test left out.
PalmCooledAlways(t) == TRUE

\* Line 439: time.time() - self.last_palm_action >= PALM_COOLDOWN.
PalmCooled(t) == t - last_palm_action >= PALM_COOLDOWN

\* Lines 285 and 482: max(1, ceil(len(self.videos) / PER_PAGE)).
page_total(n) == IF (n + PER_PAGE - 1) \div PER_PAGE > 1
                 THEN (n + PER_PAGE - 1) \div PER_PAGE ELSE 1

\* What _row_hit returns for the cursor: None, the first row, the last row.
Rows == {NoHit, <<0>>, <<PER_PAGE - 1>>}

\* sent: what _send_play_pause takes, 0.05 s with the Windows media key
\* (lines 55-58), nothing with the fallback of lines 61-63; row: what
\* _row_hit returns; starts: os.startfile does not raise; closed: what
\* _close_video returns.
VideoFrame ==
    /\ pc = "running"
    /\ runner = "run_video_player"
    /\ \E fr \in VideoFrames, key \in {"none", "esc"}, dt \in VideoDts, sent \in {0, 1},
          row \in Rows, starts \in BOOLEAN, closed \in BOOLEAN :
        LET t == now + dt
            pinch == fr.hand /\ fr.pinch
            bg == fr.hand /\ detect_back_gesture(fr.fingers)
            \* lines 409-419
            closing == fr.hand /\ fr.fist /\ player.last_opened # None
            fs0 == Armed(fist_start, closing, t)
            closeNow == closing /\ t - TimeOf(fs0) >= VIDEO_FIST_HOLD
            p1 == IF closeNow /\ closed THEN [player EXCEPT !.last_opened = None]
                  ELSE player
            \* _detect_master_exit
            shown == fr.hand /\ MasterExitPattern(fr.fingers)
            \* lines 422-428
            exitNow == /\ shown
                       /\ master_exit_start # NoTime
                       /\ t - TimeOf(master_exit_start) >= MASTER_EXIT_HOLD
            \* lines 433-447
            palm == fr.hand /\ OpenPalm(fr.fingers)
            ps0 == IF palm_start = NoTime THEN At(t) ELSE palm_start
            toggle == /\ palm
                      /\ ~exitNow
                      /\ t - TimeOf(ps0) >= PALM_HOLD
                      /\ PalmCooled(t)
            \* lines 450-460
            backing == bg /\ ~pinch
            bs0 == Armed(p1.back_start, backing, t)
            backNow == backing /\ t - TimeOf(bs0) >= VIDEO_BACK_HOLD
            p2 == IF backNow
                  THEN [p1 EXCEPT !.page = IF p1.page > 0 THEN p1.page - 1 ELSE 0,
                                  !.back_start = NoTime, !.pinched = FALSE]
                  ELSE [p1 EXCEPT !.back_start = bs0]
            \* lines 463-488
            onRow == pinch /\ row # NoHit
            pn0 == Armed(p2.pinch_start, onRow, t)
            confirm == onRow /\ t - TimeOf(pn0) >= VIDEO_PINCH_HOLD /\ ~p2.pinched
            file_idx == p2.page * PER_PAGE + row[1]
            open == confirm /\ file_idx < p2.videos
            turn == /\ confirm /\ file_idx >= p2.videos
                    /\ p2.page + 1 < page_total(p2.videos)
            p3 == IF confirm
                  THEN [p2 EXCEPT !.pinched = TRUE, !.pinch_start = NoTime,
                                  !.page = IF turn THEN p2.page + 1 ELSE p2.page,
                                  !.last_opened = IF open /\ starts THEN "a.mp4"
                                                  ELSE p2.last_opened]
                  ELSE IF onRow THEN [p2 EXCEPT !.pinch_start = pn0]
                  ELSE IF ~pinch THEN [p2 EXCEPT !.pinch_start = NoTime]
                  ELSE p2
            \* lines 491-492
            p4 == IF pinch THEN p3 ELSE [p3 EXCEPT !.pinched = FALSE]
        IN  /\ t <= VideoMaxTime
            /\ (~fr.ok \/ exitNow) => key = "none"
            /\ ~toggle => sent = 0
            /\ ~pinch => row = NoHit
            /\ ~(open /\ ~exitNow) => starts
            /\ ~closeNow => closed
            /\ now' = t
            /\ frame' = ReadBy("runner", fr)
            /\ held_since' = HeldSince(fr, t)
            /\ fist_since' = FistSince(fr, t)
            /\ key_seen' = key
            /\ emitted' = IF fr.ok /\ toggle THEN "play_pause"
                          ELSE IF fr.ok /\ open /\ ~exitNow THEN "open_path"
                          ELSE IF fr.ok /\ closeNow THEN "close_window"
                          ELSE None
            /\ IF ~fr.ok
               THEN /\ RunnerReturns("read_fail")
                    /\ UNCHANGED <<master_exit_start, palmVars, fist_start, player>>
               ELSE IF ~fr.hand
               THEN \* lines 494-504
                    /\ master_exit_start' = NoTime
                    /\ palm_start' = NoTime
                    /\ fist_start' = NoTime
                    /\ player' = [player EXCEPT !.pinch_start = NoTime,
                                                !.pinched = FALSE,
                                                !.back_start = NoTime]
                    /\ UNCHANGED last_palm_action
                    /\ IF key = "esc" THEN RunnerReturns("esc") ELSE RunnerStays
               ELSE IF exitNow
               THEN /\ RunnerReturns("exit_gesture")
                    /\ fist_start' = IF closeNow THEN NoTime ELSE fs0
                    /\ player' = p1
                    /\ UNCHANGED <<master_exit_start, palmVars>>
               ELSE /\ master_exit_start' = Armed(master_exit_start, shown, t)
                    /\ palm_start' = IF palm /\ ~toggle THEN ps0 ELSE NoTime
                    /\ last_palm_action' = IF toggle THEN t + sent ELSE last_palm_action
                    /\ fist_start' = IF closeNow THEN NoTime ELSE fs0
                    /\ player' = p4
                    /\ IF key = "esc" THEN RunnerReturns("esc") ELSE RunnerStays
            /\ hold_fires' = HoldFires(VideoPose(frame), VideoPose(fr), fr.ok /\ toggle)
    /\ UNCHANGED <<dispVars, mode_name, runner, exit_start, last_action_time,
                   zoom_in_frames, zoom_out_frames, fist_frames,
                   current_gesture, gesture_countdown_start, screenshot_taken_time,
                   same_run, gest_run, prev_cf, prev_label, disp_frames,
                   hold_frames, endVars>>
    /\ UNCHANGED <<trigger_since, fileVars, geomVars, browseVars, mouse>>

(***************************************************************************)
(* The system                                                              *)
(***************************************************************************)
Next ==
    \/ DispatcherFrame
    \/ EnterRelease
    \/ SettleIn
    \/ RunnerStart
    \/ ScrollFrame
    \/ ZoomFrame
    \/ SlideFrame
    \/ ScreenshotFrame
    \/ FileFrame
    \/ VideoFrame
    \/ Reacquire
    \/ EnterReturn
    \/ Resume
    \/ Finalize

Spec == Init /\ [][Next]_vars

(***************************************************************************)
(* The two classifiers on their own: every finger state is classified by   *)
(* detect_mode_gesture and by Zoom.detect_gesture, in either order.        *)
(***************************************************************************)
InitClassify ==
    /\ pc = "classify"
    /\ \E f \in FingerState : frame = ReadBy("classifier", Hand(f, FALSE))
    /\ cap = "open"
    /\ confirmation_frames = 0
    /\ gesture_mode = None
    /\ mode_name = None
    /\ runner = None
    /\ runner_cap = "none"
    /\ orphan_cap = FALSE
    /\ RunnerIdle
    /\ emitted = None
    /\ ended_by = None
    /\ held_since = NoTime
    /\ same_run = 0
    /\ gest_run = 0
    /\ prev_cf = 0
    /\ prev_label = None
    /\ disp_frames = 0
    /\ run_ended_by = None
    /\ reopen_failed = FALSE
    /\ settled = TRUE
    /\ runner_hands = "none"
    /\ GeomIdle

\* gesture_mode = detect_mode_gesture(fingers), master_gesture_controller.py 223.
ClassifyModeGesture ==
    /\ pc \in {"classify", "zoom_classified"}
    /\ gesture_mode' = detect_mode_gesture(frame.fingers)
    /\ pc' = IF pc = "classify" THEN "mode_classified" ELSE "classified"
    /\ UNCHANGED <<cap, confirmation_frames, handVars, runVars, histVars,
                   palmVars, holdVars, endVars>>
    /\ UNCHANGED <<resVars, trigger_since, fileVars, geomVars, lateVars>>

\* gesture = detect_gesture(fingers), Zoom.py 112.
ClassifyZoomGesture ==
    /\ pc \in {"classify", "mode_classified"}
    /\ current_gesture' = detect_gesture(frame.fingers)
    /\ pc' = IF pc = "classify" THEN "zoom_classified" ELSE "classified"
    /\ UNCHANGED <<dispVars, handVars, now, exit_start, master_exit_start,
                   last_action_time, fist_start, zoom_in_frames, zoom_out_frames,
                   fist_frames, gesture_countdown_start, screenshot_taken_time,
                   histVars, palmVars, holdVars, endVars>>
    /\ UNCHANGED <<resVars, trigger_since, fileVars, geomVars, lateVars>>

NextClassify == ClassifyModeGesture \/ ClassifyZoomGesture

SpecClassify == InitClassify /\ [][NextClassify]_vars

(***************************************************************************)
(* The landmark detectors on their own.  A pose is a landmark list: for    *)
(* each joint id used by the detectors its position <<x, y>> in pixels of  *)
(* a FrameSize x FrameSize frame (lm[i].x * img_w, lm[i].y * img_h), so    *)
(* that the normalised coordinate of the sources is x / FrameSize.         *)
(***************************************************************************)
FrameSize == 100

HAND_SIZE_FLOOR == 20
PinchPercent == 28
ThumbMarginPercent == 6
FingerMarginPercent == 2

Joints == {0, 2, 3, 4, 6, 8, 9, 10, 12, 14, 16, 18, 20}
Px(p) == p[1]
Py(p) == p[2]
Sq(n) == n * n
Abs(n) == IF n < 0 THEN 0 - n ELSE n
Max(a, b) == IF a > b THEN a ELSE b
DistSq(p, q) == Sq(Px(p) - Px(q)) + Sq(Py(p) - Py(q))

\* The poses explored: hs = wrist to middle-finger MCP, d = thumb tip to
\* index tip, side = the thumb tip is right (1) or left (-1) of the index
\* tip, e = the thumb IP joint is right (1) or left (-1) of the thumb tip,
\* v = the thumb IP joint is below (1) or above (-1) the thumb tip, i = the
\* index PIP joint is below (3) or above (-3) the index tip.  Middle and
\* ring are curled, the pinky is up.
HandSizes == {5, 10, 20}
TipGaps == {2, 3, 5, 8}
Signs == {-1, 1}

PoseOf(hs, d, side, e, v, i) ==
    [j \in Joints |->
        CASE j = 0  -> <<15, 30>>
          [] j = 9  -> <<15, 30 - hs>>
          [] j = 8  -> <<15, 8>>
          [] j = 6  -> <<15, 8 + i>>
          [] j = 4  -> <<15 + side * d, 8>>
          [] j = 3  -> <<15 + side * d + e, 8 + v>>
          [] j = 2  -> <<15 + side * d - 7 * e, 12>>
          [] j = 12 -> <<18, 20>>
          [] j = 10 -> <<18, 16>>
          [] j = 16 -> <<21, 21>>
          [] j = 14 -> <<21, 17>>
          [] j = 20 -> <<24, 10>>
          [] j = 18 -> <<24, 15>>]

Poses == {PoseOf(hs, d, side, e, v, 3 * i) :
            hs \in HandSizes, d \in TipGaps, side \in Signs, e \in Signs,
            v \in Signs, i \in Signs}

\* The factors a pose is scaled by.
Scales == {2, 3}

\* tip.y < pip.y - margin, the margin in hundredths of the frame height.
TipAbove(l, tip, pip, margin) ==
    100 * Py(l[tip]) < 100 * Py(l[pip]) - margin * FrameSize

\* master_gesture_controller.fingers_up, lines 24-50.
fingers_up(l) ==
    << 100 * Abs(Px(l[4]) - Px(l[2])) > ThumbMarginPercent * FrameSize,
       TipAbove(l, 8, 6, FingerMarginPercent),
       TipAbove(l, 12, 10, FingerMarginPercent),
       TipAbove(l, 16, 14, FingerMarginPercent),
       TipAbove(l, 20, 18, FingerMarginPercent) >>

\* scroll.fingers_up (lines 18-29) and slidetravel.fingers_up (lines 27-38).
scroll_fingers_up(l) ==
    << Px(l[4]) < Px(l[3]),
       TipAbove(l, 8, 6, 0), TipAbove(l, 12, 10, 0),
       TipAbove(l, 16, 14, 0), TipAbove(l, 20, 18, 0) >>

\* Zoom.fingers_up, lines 27-58.
zoom_fingers_up(l) ==
    << Px(l[4]) < Px(l[3]),
       TipAbove(l, 8, 6, FingerMarginPercent), TipAbove(l, 12, 10, 0),
       TipAbove(l, 16, 14, 0), TipAbove(l, 20, 18, 0) >>

\* open_files.py lines 203-207 and VideoPlayer._detect_master_exit: the
\* finger state the two browsers test for the exit gesture.
browser_fingers_up(l) ==
    << Px(l[4]) < Px(l[3]),
       TipAbove(l, 8, 6, FingerMarginPercent),
       TipAbove(l, 12, 10, FingerMarginPercent),
       TipAbove(l, 16, 14, FingerMarginPercent),
       TipAbove(l, 20, 18, FingerMarginPercent) >>

\* The square of hand_size after line 75 of open_files.py / of _hand_size.
HandSizeSq(l) == Max(DistSq(l[9], l[0]), Sq(HAND_SIZE_FLOOR))

\* HandFileOpener.detect_pinch (lines 64-80) and VideoPlayer._detect_pinch:
\* dist < hand_size * 0.28, compared as squares.
detect_pinch(l) ==
    Sq(100) * DistSq(l[4], l[8]) < Sq(PinchPercent) * HandSizeSq(l)

\* gesture_mouse_control.is_pinch_detected, lines 47-48: the extension tests.
thumb_extended(l) == Py(l[4]) < Py(l[3])
index_extended(l) == Py(l[8]) < Py(l[6])

\* Everything the detectors return for a pose.
Outputs(l) == [pinch |-> detect_pinch(l),
               master |-> fingers_up(l),
               scroll |-> scroll_fingers_up(l),
               zoom |-> zoom_fingers_up(l),
               browser |-> browser_fingers_up(l)]

Scaled(l, k) == [j \in Joints |-> <<k * Px(l[j]), k * Py(l[j])>>]
Mirrored(l) == [j \in Joints |-> <<FrameSize - Px(l[j]), Py(l[j])>>]

InitGeom ==
    /\ pc = "geom_pose"
    /\ lm \in Poses
    /\ seen = <<>>
    /\ seen_before = <<>>
    /\ xform = <<>>
    /\ cap = "open"
    /\ confirmation_frames = 0
    /\ gesture_mode = None
    /\ mode_name = None
    /\ runner = None
    /\ runner_cap = "none"
    /\ orphan_cap = FALSE
    /\ RunnerIdle
    /\ frame = NoFrame
    /\ emitted = None
    /\ ended_by = None
    /\ held_since = NoTime
    /\ same_run = 0
    /\ gest_run = 0
    /\ prev_cf = 0
    /\ prev_label = None
    /\ disp_frames = 0
    /\ run_ended_by = None
    /\ reopen_failed = FALSE
    /\ settled = TRUE
    /\ runner_hands = "none"

GeomRest == <<dispVars, handVars, runVars, histVars, palmVars, holdVars, endVars,
              resVars, trigger_since, fileVars, lateVars>>

\* The detectors are called on the landmark list.
Detect ==
    /\ pc \in {"geom_pose", "geom_moved"}
    /\ seen' = <<Outputs(lm)>>
    /\ pc' = IF pc = "geom_pose" THEN "geom_seen" ELSE "geom_done"
    /\ UNCHANGED <<lm, seen_before, xform, GeomRest>>

\* The same hand, k times as large in the frame.
ScalePose ==
    /\ pc = "geom_seen"
    /\ \E k \in Scales :
        /\ lm' = Scaled(lm, k)
        /\ xform' = <<"scale", k>>
    /\ seen_before' = seen
    /\ seen' = <<>>
    /\ pc' = "geom_moved"
    /\ UNCHANGED GeomRest

\* The same hand, mirrored horizontally: x -> 1 - x.
MirrorPose ==
    /\ pc = "geom_seen"
    /\ lm' = Mirrored(lm)
    /\ xform' = <<"mirror", 1>>
    /\ seen_before' = seen
    /\ seen' = <<>>
    /\ pc' = "geom_moved"
    /\ UNCHANGED GeomRest

NextGeom == Detect \/ ScalePose \/ MirrorPose

SpecGeom == InitGeom /\ [][NextGeom]_vars

(***************************************************************************)
(* gesture_mouse_control.main, the loop of lines 168-318: a program of its *)
(* own, started from the command line.                                     *)
(***************************************************************************)
MouseMaxTime == 40
click_cooldown_duration == 10

\* time.time() advances by 0.1 s or 0.25 s between two frames.
MouseDts == {2, 5}

\* A pinch, thumb and index apart, no hand, a failed read, and a landmark
\* list that makes the processing of lines 189-243 raise.
MouseFrames == {ReadFail, NoHand, BadHand, PinchHand,
                Hand(<<TRUE, TRUE, FALSE, FALSE, FALSE>>, FALSE)}

InitMouse ==
    /\ pc = "mouse"
    /\ cap = "open"
    /\ confirmation_frames = 0
    /\ gesture_mode = None
    /\ mode_name = None
    /\ runner = None
    /\ runner_cap = "none"
    /\ orphan_cap = FALSE
    /\ RunnerIdle
    /\ frame = NoFrame
    /\ emitted = None
    /\ ended_by = None
    /\ held_since = NoTime
    /\ same_run = 0
    /\ gest_run = 0
    /\ prev_cf = 0
    /\ prev_label = None
    /\ disp_frames = 0
    /\ run_ended_by = None
    /\ reopen_failed = FALSE
    /\ settled = TRUE
    /\ runner_hands = "none"
    /\ GeomIdle

\* The frame before the one being processed had a hand whose landmarks
\* were processed to the end.
HandFrame(fr) == fr.by = "mouse" /\ fr.ok /\ fr.hand /\ ~fr.bad

\* Line 234: the cooldown test.
ClickCooled(t) ==
    \/ mouse.click_cooldown_time = NoTime
    \/ t - TimeOf(mouse.click_cooldown_time) > click_cooldown_duration

\* One iteration.  clicks: pyautogui.click does not raise (lines 235-240
\* swallow its exception); key: what cv2.waitKey returns.  An exception in
\* the processing of the landmarks is caught at lines 245-247, which go on
\* to the next hand and leave pinch_detected_last as it was.
MouseFrame ==
    /\ pc = "mouse"
    /\ \E fr \in MouseFrames, key \in {"none", "q"}, dt \in MouseDts, clicks \in BOOLEAN :
        LET t == now + dt
            is_pinching == fr.hand /\ ~fr.bad /\ fr.pinch
            try == is_pinching /\ ~mouse.pinch_detected_last /\ ClickCooled(t)
            click == try /\ clicks
            held == HandFrame(frame) /\ frame.pinch
        IN  /\ t <= MouseMaxTime
            /\ ~fr.ok => key = "none"
            /\ ~try => clicks
            /\ now' = t
            /\ frame' = ReadBy("mouse", fr)
            /\ key_seen' = key
            /\ emitted' = IF fr.ok /\ click THEN "mouse_click" ELSE None
            /\ pc' = IF ~fr.ok \/ key = "q" THEN "mouse_done" ELSE "mouse"
            /\ mouse' =
                 IF ~fr.ok THEN mouse
                 ELSE [pinch_detected_last |->
                          IF ~fr.hand THEN FALSE                       \* line 250
                          ELSE IF fr.bad THEN mouse.pinch_detected_last
                          ELSE is_pinching,                            \* line 243
                       click_cooldown_time |->
                          IF click THEN At(t) ELSE mouse.click_cooldown_time,
                       pinch_before |->
                          IF HandFrame(frame) THEN frame.pinch ELSE mouse.pinch_before,
                       pinch_clicks |->
                          IF is_pinching
                          THEN Min((IF held THEN mouse.pinch_clicks ELSE 0)
                                     + (IF click THEN 1 ELSE 0), 2)
                          ELSE 0,
                       began_cooling |->
                          IF is_pinching
                          THEN (IF held THEN mouse.began_cooling ELSE ~ClickCooled(t))
                          ELSE FALSE]
    /\ UNCHANGED <<dispVars, handVars, exit_start, master_exit_start, last_action_time,
                   fist_start, zoom_in_frames, zoom_out_frames, fist_frames,
                   current_gesture, gesture_countdown_start, screenshot_taken_time,
                   ended_by, held_since, same_run, gest_run, prev_cf, prev_label,
                   disp_frames, palmVars, holdVars, endVars, resVars, trigger_since,
                   fileVars, geomVars, fist_since, browseVars, player>>

NextMouse == MouseFrame

SpecMouse == InitMouse /\ [][NextMouse]_vars

(***************************************************************************)
(* Properties                                                              *)
(***************************************************************************)
T == TRUE
F == FALSE

DispatcherHolds == cap = "open"
RunnerHolds == runner_cap = "open"
HandOffPcs == {"settle_in", "dispatch", "running", "reacquire"}

\* C1: at no time do the Dispatcher and a Mode Runner both hold an open
\* camera handle, also when the runner ended by an exception that enter_mode
\* caught.
CameraMutualExclusion ==
    ~(DispatcherHolds /\ (RunnerHolds \/ orphan_cap))

ReturnResumesDetection ==
    /\ pc \in HandOffPcs => ~DispatcherHolds
    /\ pc = "resume" => /\ DispatcherHolds
                        /\ ~RunnerHolds
                        /\ confirmation_frames = 0
                        /\ mode_name = None
    /\ (pc = "detect" /\ disp_frames = 0) => confirmation_frames = 0
    /\ pc = "enter_mode" => /\ disp_frames >= CONFIRMATION_FRAMES
                            /\ gest_run >= CONFIRMATION_FRAMES

\* Back in the Dispatcher's loop after a runner that raised.
ResumedAfterException ==
    pc = "resume" /\ ended_by = "exception" /\ confirmation_frames = 0

\* C4: the counter counts only consecutive frames with one and the same
\* label, so enter_mode(M) is called only when each of the last
\* CONFIRMATION_FRAMES frames was classified as M.
EnterOnlyOnSameLabel ==
    /\ (pc \in {"detect", "enter_mode"} /\ frame.by = "dispatcher")
          => confirmation_frames <= same_run
    /\ pc = "enter_mode" => /\ same_run >= CONFIRMATION_FRAMES
                            /\ gesture_mode = mode_name

\* C5: after N frames with the same label the counter is
\* min(N, CONFIRMATION_FRAMES), and after a following frame with a different
\* label it is 0.
FrameCountConfirmation ==
    (pc \in {"detect", "enter_mode"} /\ frame.by = "dispatcher" /\ frame.ok) =>
        /\ (gesture_mode # None /\ gest_run = same_run)
              => confirmation_frames = Min(same_run, CONFIRMATION_FRAMES)
        /\ (prev_label # None /\ gesture_mode # prev_label)
              => confirmation_frames = 0

NoModePattern(f) ==
    /\ ~ScrollModePattern(f)
    /\ ~FileModePattern(f)
    /\ ~SsModePattern(f)
    /\ ~SlideModePattern(f)
    /\ ~VideoModePattern(f)
    /\ ~ZoomModePattern(f)

\* C6: a Dispatcher frame without a hand, or with a finger state that
\* matches no mode-entry pattern, sets the counter to 0 and enters no mode;
\* the counter is the number of gesture frames since the last such frame, so
\* it is 1 after a gesture reappears, and a mode is entered only after
\* CONFIRMATION_FRAMES consecutive gesture frames.
NoGestureFrameResets ==
    /\ (frame.by = "dispatcher" /\ frame.ok /\ ~frame.bad
            /\ (~frame.hand \/ NoModePattern(frame.fingers)))
          => confirmation_frames = 0 /\ pc \in {"detect", "done"}
    /\ (frame.by = "dispatcher" /\ frame.ok /\ pc \in {"detect", "enter_mode"})
          => confirmation_frames = gest_run
    /\ pc = "enter_mode" => gest_run >= CONFIRMATION_FRAMES

\* C6 witness: a 5-frame partial hold, then a frame without a hand.
PartialHoldThenNoHand ==
    /\ frame.by = "dispatcher"
    /\ frame.ok
    /\ ~frame.hand
    /\ prev_cf = 5
    /\ confirmation_frames = 0
    /\ pc = "detect"

ExpectedModeLabel(f) ==
    CASE f = <<T, T, T, T, T>> -> "scroll_mode"
      [] f = <<T, T, F, F, F>> -> "file_mode"
      [] f = <<F, F, T, T, T>> -> "ss_mode"
      [] f = <<F, T, T, F, F>> -> "slide_mode"
      [] f = <<F, T, T, T, F>> -> "video_mode"
      [] f = <<F, T, F, F, F>> -> "zoom_mode"
      [] OTHER -> None

ExpectedRunner(m) ==
    CASE m = "scroll_mode" -> "run_scroll"
      [] m = "file_mode" -> "HandFileOpener.run"
      [] m = "ss_mode" -> "run_screenshot"
      [] m = "slide_mode" -> "run_slide_travel"
      [] m = "video_mode" -> "run_video_player"
      [] m = "zoom_mode" -> "run_zoom"
      [] OTHER -> None

\* C7: detect_mode_gesture maps exactly the six listed finger states to
\* their modes and every other finger state to None, and enter_mode calls
\* the one runner of the label it was given.
ModeEntryTable ==
    /\ (frame.by = "dispatcher" /\ frame.hand /\ ~frame.bad)
          => gesture_mode = ExpectedModeLabel(frame.fingers)
    /\ pc = "enter_mode" => mode_name = ExpectedModeLabel(frame.fingers)
    /\ pc = "running" => /\ mode_name \in ModeLabels
                         /\ runner = ExpectedRunner(mode_name)

\* C7 witness: the video runner runs, entered by index + middle + ring.
VideoModeEntered ==
    pc = "running" /\ mode_name = "video_mode" /\ runner = "run_video_player"

ModePatternOf(l, f) ==
    CASE l = "scroll_mode" -> ScrollModePattern(f)
      [] l = "file_mode" -> FileModePattern(f)
      [] l = "ss_mode" -> SsModePattern(f)
      [] l = "slide_mode" -> SlideModePattern(f)
      [] l = "video_mode" -> VideoModePattern(f)
      [] l = "zoom_mode" -> ZoomModePattern(f)

ZoomLabels == {"zoom_in", "zoom_out", "fist"}

ZoomPatternOf(l, f) ==
    CASE l = "zoom_in" -> ZoomInPattern(f)
      [] l = "zoom_out" -> ZoomOutPattern(f)
      [] l = "fist" -> ZoomFistPattern(f)

\* The label of the first matching pattern when the checks are made in the
\* order ord; hits are the positions of ord whose pattern matches.
FirstMatch(ord, hits) ==
    IF hits = {} THEN None
    ELSE ord[CHOOSE i \in hits : \A j \in hits : i <= j]

Orders(labels) ==
    {ord \in [1..Cardinality(labels) -> labels] :
        \A i, j \in 1..Cardinality(labels) : ord[i] = ord[j] => i = j}

ModeOrders == Orders(ModeLabels)
ZoomOrders == Orders(ZoomLabels)

\* C8: no finger state satisfies two of the six mode-entry patterns, nor two
\* of the three patterns of Zoom.detect_gesture, so each classifier returns
\* the label it would return under any order of its checks.
PatternsPairwiseDisjoint ==
    LET f == frame.fingers
        MatchesMode(l) == ModePatternOf(l, f)
        MatchesZoom(l) == ZoomPatternOf(l, f)
    IN  /\ Cardinality({l \in ModeLabels : MatchesMode(l)}) <= 1
        /\ Cardinality({l \in ZoomLabels : MatchesZoom(l)}) <= 1
        /\ pc \in {"mode_classified", "classified"} =>
              \A ord \in ModeOrders :
                  FirstMatch(ord, {i \in DOMAIN ord : MatchesMode(ord[i])}) = gesture_mode
        /\ pc \in {"zoom_classified", "classified"} =>
              \A ord \in ZoomOrders :
                  FirstMatch(ord, {i \in DOMAIN ord : MatchesZoom(ord[i])}) = current_gesture

\* C8 witness: index + middle has been classified by both classifiers.
IndexMiddleClassified ==
    /\ pc = "classified"
    /\ frame.fingers = <<F, T, T, F, F>>
    /\ gesture_mode = "slide_mode"
    /\ current_gesture = "zoom_out"

\* C9: in every mode, once the exit gesture has been detected in every frame
\* for at least 2.0 s the mode has terminated.
ExitHoldTerminatesMode ==
    pc = "running" =>
        \/ held_since = NoTime
        \/ now - TimeOf(held_since) < EXIT_HOLD

\* C10: a runner returns through the exit gesture only if every frame of the
\* 2.0 s before the return had a detected hand showing the gesture.
ExitOnlyAfterFullHold ==
    (pc = "reacquire" /\ ended_by = "exit_gesture") =>
        /\ held_since # NoTime
        /\ now - TimeOf(held_since) >= EXIT_HOLD

\* C11: in no mode does a frame showing the exit gesture start, advance or
\* fire anything but the return to the master controller: no action is
\* emitted for it and no countdown, palm timer or zoom counter runs on it.
ExitGestureReserved ==
    (frame.by = "runner" /\ frame.ok /\ frame.hand
        /\ MasterExitPattern(frame.fingers)) =>
        /\ emitted = None
        /\ gesture_countdown_start = NoTime
        /\ palm_start = NoTime
        /\ zoom_in_frames = 0 /\ zoom_out_frames = 0 /\ fist_frames = 0

\* C12: after a frame without a detected hand every hold timer of the mode
\* is unarmed: start timestamps None, frame counters 0.
NoHandUnarmsTimers ==
    (frame.by = "runner" /\ frame.ok /\ ~frame.hand) =>
        /\ exit_start = NoTime
        /\ master_exit_start = NoTime
        /\ fist_start = NoTime
        /\ palm_start = NoTime
        /\ gesture_countdown_start = NoTime
        /\ zoom_in_frames = 0 /\ zoom_out_frames = 0 /\ fist_frames = 0

\* C13: in zoom mode a gesture held in every frame fires at most once.
ZoomFiresOncePerHold ==
    runner = "run_zoom" => hold_fires <= 1

\* C14: while open palm (video browser) or a fist (slide travel) stays
\* detected in every frame, its action fires at most once.
HoldFiresOnce ==
    runner \in {"run_video_player", "run_slide_travel"} => hold_fires <= 1

ScrollNeedsFrameCount ==
    (runner = "run_scroll" /\ emitted \in ScrollCalls) => hold_frames >= 8

\* C18: when the reopening of the camera after a Mode Runner failed, the
\* Dispatcher stays in its loop; only the ESC key ends it.
ReopenFailureSurvived ==
    (reopen_failed /\ pc = "done") => run_ended_by = "esc"

\* C19: a failed camera read does not end the loop that made it.
ReadFailureKeepsLoop ==
    (frame.by \in {"dispatcher", "runner"} /\ ~frame.ok)
        => pc \in {"detect", "running"}

\* C20: a frame whose landmark list is malformed resets the Dispatcher's
\* counter, enters no mode and leaves the Dispatcher in its detection loop.
MalformedLandmarksFailSoft ==
    (frame.by = "dispatcher" /\ frame.bad)
        => confirmation_frames = 0 /\ pc = "detect"

\* C21: an external action that fails does not end the loop of the mode that
\* issued it: no runner is left through an exception of its action call.
ActionFailureKeepsLoop ==
    ~(pc = "reacquire" /\ ended_by = "exception")

\* C22: every acquisition of the camera, by a runner on the way in and by
\* the Dispatcher on the way back, comes after a settle delay that followed
\* the release before it.
SettleBeforeAcquire ==
    [][((pc = "dispatch" /\ pc' = "running")
            \/ (pc = "reacquire" /\ pc' = "settle_out")) => settled]_vars

FourRunners == {"run_scroll", "run_slide_travel", "HandFileOpener.run",
                "run_video_player"}

\* C23: when run_scroll, run_slide_travel, HandFileOpener.run or
\* run_video_player has returned through the exit gesture, ESC or a failed
\* read, its camera handle is released.
RunnerReleasesCamera ==
    (pc = "reacquire" /\ runner \in FourRunners
        /\ ended_by \in {"exit_gesture", "esc", "read_fail"})
        => runner_cap = "released"

\* C23 witness: the video browser has returned after a failed read.
VideoReturnedOnReadFailure ==
    /\ pc = "reacquire"
    /\ runner = "run_video_player"
    /\ ended_by = "read_fail"
    /\ runner_cap = "released"

\* C24: when a Mode Runner has returned, the detector it created is closed.
RunnerClosesDetector ==
    pc = "reacquire" => runner_hands # "open"

\* C25: in screenshot mode the countdown start is None after every frame
\* that does not show the trigger, and a screenshot is taken only when the
\* trigger was shown in every frame of the countdown_duration before it.
CountdownResetsOnFalseFrame ==
    (runner = "run_screenshot" /\ frame.by = "runner" /\ frame.ok) =>
        /\ ~(frame.hand /\ are_fingers_up(frame.fingers))
              => gesture_countdown_start = NoTime
        /\ emitted = "capture_screenshot" =>
              /\ trigger_since # NoTime
              /\ now - TimeOf(trigger_since) >= countdown_duration

\* C26: in the file browser a frame without a detected hand continues no
\* hold and fires nothing: the back, pinch and fist timers are None after
\* it and no navigation, selection, open or close happened in it.
FileFrameDataOnly ==
    (runner = "HandFileOpener.run" /\ frame.by = "runner" /\ frame.ok
        /\ ~frame.hand) =>
        /\ opener.back_start = NoTime
        /\ opener.pinch_start = NoTime
        /\ fist_start = NoTime
        /\ file_event = None

\* C27: a successful open returns the file browser to its menu (choice None,
\* no files, page 0) without ending the mode, and HandFileOpener.run returns
\* only on ESC or on the master-exit gesture.
OpenReturnsToMenu ==
    runner = "HandFileOpener.run" =>
        /\ file_event = "opened" =>
              /\ opener.state = "menu"
              /\ opener.choice = NoChoice
              /\ opener.files = <<>>
              /\ opener.page = 0
              /\ (pc = "running" \/ ended_by = "esc")
        /\ pc = "reacquire" => ended_by \in {"esc", "exit_gesture"}

\* C28: detect_pinch reports a pinch exactly when the tip distance is below
\* 0.28 of the floored hand size and thumb and index both test as extended.
PinchOnlyWhenExtended ==
    seen # <<>> =>
        (seen[1].pinch <=> (/\ Sq(100) * DistSq(lm[4], lm[8])
                                  < Sq(PinchPercent) * HandSizeSq(lm)
                            /\ thumb_extended(lm)
                            /\ index_extended(lm)))

\* C29: scaling every landmark coordinate by a factor k leaves the result
\* of detect_pinch unchanged.
PinchScaleInvariant ==
    (pc = "geom_done" /\ xform[1] = "scale")
        => seen[1].pinch = seen_before[1].pinch

\* C30: mirroring a hand horizontally changes the finger state of none of
\* the extractors, and so not whether the exit gesture is recognised.
FingerStateMirrorInvariant ==
    (pc = "geom_done" /\ xform[1] = "mirror") =>
        /\ seen[1].master = seen_before[1].master
        /\ seen[1].scroll = seen_before[1].scroll
        /\ seen[1].zoom = seen_before[1].zoom
        /\ seen[1].browser = seen_before[1].browser

\* C31: a fist held in a mode ends the mode: no runner is still in its loop
\* when a fist has been shown in every frame of the last 2 s.
FistExitsMode ==
    pc = "running" =>
        \/ fist_since = NoTime
        \/ now - TimeOf(fist_since) < EXIT_HOLD

\* C32: in every mode an ESC seen at the poll that ends a frame ends the
\* mode with that frame, the camera released; a frame that returned before
\* its poll saw no key.
EscEndsModeAtFrameEnd ==
    (frame.by = "runner" /\ pc \in {"running", "reacquire"}) =>
        /\ key_seen = "esc" => /\ pc = "reacquire"
                               /\ ended_by = "esc"
                               /\ runner_cap = "released"
        /\ ended_by \in {"read_fail", "exit_gesture", "fist", "exception"}
              => key_seen = "none"

\* C33: from the call of enter_mode until the camera is reacquired no step
\* is a frame of the Dispatcher or changes confirmation_frames or the
\* Dispatcher's label, and a frame read by a runner changes no variable of
\* the Dispatcher; enter_mode's last step resets confirmation_frames to 0.
DispatcherIdleWhileRunner ==
    [][/\ pc \in {"enter_mode", "settle_in", "dispatch", "running", "reacquire"}
          => /\ confirmation_frames' = confirmation_frames
             /\ gesture_mode' = gesture_mode
             /\ frame' # frame => frame'.by # "dispatcher"
       /\ pc = "running" => UNCHANGED dispVars
       /\ (pc = "settle_out" /\ pc' # pc) => confirmation_frames' = 0]_vars

\* C33 witness: a runner has read a frame showing a mode-entry gesture and
\* the Dispatcher's counter still has the value that entered the mode.
RunnerFrameLeavesCounter ==
    /\ pc = "running"
    /\ frame.by = "runner" /\ frame.hand
    /\ detect_mode_gesture(frame.fingers) # None
    /\ detect_mode_gesture(frame.fingers) # mode_name
    /\ confirmation_frames = CONFIRMATION_FRAMES
    /\ gesture_mode = mode_name

\* C35: in the file browser one unbroken pinch confirms at most one
\* selection, menu selections and file opens counted together.
OneSelectionPerPinch ==
    runner = "HandFileOpener.run" => pinch_selects <= 1

\* C36: the video browser's page is below the page total, and on every page
\* that has a later page some row shows no video, so that the pinch that
\* turns to the next page can be made and every page can be reached.
EveryPageReachable ==
    (runner = "run_video_player" /\ pc = "running") =>
        /\ 0 <= player.page
        /\ player.page < page_total(player.videos)
        /\ player.page + 1 < page_total(player.videos) =>
              \E r \in 0..(PER_PAGE - 1) :
                  player.page * PER_PAGE + r >= player.videos

\* C37: after every frame of the zoom loop at most one of the three
\* counters is nonzero and it is the one of current_gesture; a zoom action
\* comes at least ZOOM_COOLDOWN after the zoom action before it; the 8th
\* fist frame in a row ends the mode whatever the cooldown.
ZoomCountersExclusive ==
    [][(runner = "run_zoom" /\ pc = "running" /\ now' # now) =>
          /\ zoom_in_frames' = 0 \/ current_gesture' = "zoom_in"
          /\ zoom_out_frames' = 0 \/ current_gesture' = "zoom_out"
          /\ fist_frames' = 0 \/ current_gesture' = "fist"
          /\ \/ zoom_in_frames' = 0 /\ zoom_out_frames' = 0
             \/ zoom_in_frames' = 0 /\ fist_frames' = 0
             \/ zoom_out_frames' = 0 /\ fist_frames' = 0
          /\ emitted' \in ZoomCalls => now' - last_action_time >= ZOOM_COOLDOWN
          /\ (ZoomPose(frame') = "fist" /\ hold_frames' >= GESTURE_FRAMES_REQUIRED)
                => pc' = "reacquire" /\ ended_by' = "fist"]_vars

\* C37 witness: the fist exit has come inside the cooldown of a zoom action.
FistExitInsideCooldown ==
    /\ runner = "run_zoom"
    /\ pc = "reacquire"
    /\ ended_by = "fist"
    /\ fist_frames = GESTURE_FRAMES_REQUIRED
    /\ last_action_time # Epoch
    /\ now - last_action_time < ZOOM_COOLDOWN

\* C38: the file browser is in 'menu' or 'browse'; in 'browse' choice is an
\* index into types; after a back or an open it is in 'menu' with choice
\* None, no files and page 0; files changes only with a change between
\* 'menu' and 'browse'.
FileSubStates ==
    [][(runner = "HandFileOpener.run" /\ pc = "running" /\ now' # now) =>
          /\ opener'.state \in {"menu", "browse"}
          /\ opener'.state = "browse" =>
                /\ opener'.choice # NoChoice
                /\ opener'.choice[1] \in 0..(TYPES_COUNT - 1)
          /\ file_event' \in {"back", "opened"} =>
                /\ opener'.state = "menu"
                /\ opener'.choice = NoChoice
                /\ opener'.files = <<>>
                /\ opener'.page = 0
          /\ opener'.files # opener.files =>
                \/ opener.state = "menu" /\ opener'.state = "browse"
                \/ opener.state = "browse" /\ opener'.state = "menu"]_vars

\* C38 witness: the back gesture has returned a file list to the menu.
BackDroppedFileList ==
    /\ runner = "HandFileOpener.run"
    /\ pc = "running"
    /\ file_event = "back"
    /\ opener.state = "menu"
    /\ opener.files = <<>>
    /\ opener.choice = NoChoice

\* C39: the file browser issues a close action only with last_opened set
\* and a fist shown in every frame of the last FIST_HOLD; the close clears
\* last_opened and fist_start, so no second close follows for that file;
\* fist_start is None after every frame without a fist or with last_opened
\* None.
FistCloseOnce ==
    [][(runner = "HandFileOpener.run" /\ pc = "running" /\ now' # now) =>
          /\ closed_now' =>
                /\ opener.last_opened # None
                /\ frame'.hand /\ frame'.fist
                /\ fist_since' # NoTime
                /\ now' - TimeOf(fist_since') >= FILE_FIST_HOLD
                /\ fist_start' = NoTime
                /\ opener'.last_opened = None \/ file_event' = "opened"
          /\ closes_since_open' <= 1
          /\ (frame'.ok /\ (opener'.last_opened = None \/ ~frame'.fist))
                => fist_start' = NoTime]_vars

\* C39 witness: the close action has been issued for the opened file.
FileClosedByFist ==
    /\ runner = "HandFileOpener.run"
    /\ closed_now
    /\ emitted = "close_window"
    /\ closes_since_open = 1
    /\ opener.last_opened = None
    /\ fist_start = NoTime

ClickOncePerPinch ==
    [][(now' # now /\ pc = "mouse") =>
          /\ emitted' = "mouse_click" =>
                /\ frame'.hand /\ frame'.pinch
                /\ ~(IF HandFrame(frame) THEN frame.pinch ELSE mouse.pinch_before)
                /\ ClickCooled(now')
          /\ mouse'.pinch_clicks <= 1
          /\ mouse'.began_cooling => mouse'.pinch_clicks = 0]_vars
====
